---- MODULE Spec2Model ----
(***************************************************************************)
(* Model of the Genesys form exporter (src/sparkcontext.py): main() builds *)
(* a GenesysProcessor, fetches one API body, walks the published form      *)
(* entities, flattens each form's question groups into JSONL, and writes   *)
(* the aggregate forms.jsonl.                                              *)
(*                                                                         *)
(* A Python dict is a sequence of <<key, value>> pairs in insertion order  *)
(* (json.dumps writes keys in that order).  A value is a tagged pair:      *)
(* <<"str", s>>, <<"null", "">> (None), <<"list", seq>>, <<"dict", d>>.    *)
(***************************************************************************)
EXTENDS Integers, Sequences, FiniteSets, TLC

(* ------------------------------ bounds --------------------------------- *)
\* largest branching factor (groups, questions, answer options) of a form
MaxN == 2
\* most published form entities under one root entity
MaxForms == 2
\* most root entities in the first page
MaxRoots == 2
\* longest page sequence the API serves (the last page is the empty one)
MaxPages == 2
\* number of successive runs of main() against the same storage
MaxRuns == 2

(* --------------------------- Python values ----------------------------- *)
StrV(s) == <<"str", s>>
NoneV == <<"null", "">>
ListV(l) == <<"list", l>>
DictV(d) == <<"dict", d>>
Items(v) == v[2]

EmptyDict == << >>
Keys(d) == {d[i][1] : i \in DOMAIN d}
HasKey(d, k) == \E i \in DOMAIN d : d[i][1] = k
\* d.get(k, default)
DictGet(d, k, default) ==
    IF HasKey(d, k) THEN d[CHOOSE i \in DOMAIN d : d[i][1] = k][2] ELSE default
\* the dict left behind by d.pop(k, default)
DictPop(d, k) == SelectSeq(d, LAMBDA p : p[1] # k)
\* d[k] = v
DictPut(d, k, v) ==
    IF HasKey(d, k)
    THEN [i \in DOMAIN d |-> IF d[i][1] = k THEN <<k, v>> ELSE d[i]]
    ELSE Append(d, <<k, v>>)
\* {**a, **b}
RECURSIVE Merge(_, _)
Merge(a, b) ==
    IF b = << >> THEN a ELSE Merge(DictPut(a, b[1][1], b[1][2]), Tail(b))
\* truthiness of a value (`if not published_versions`)
Truthy(v) == v[1] # "null" /\ v[2] # << >>
\* str(v) inside an f-string
PyStr(v) == IF v[1] = "null" THEN "None" ELSE v[2]

RECURSIVE ConcatAll(_)
ConcatAll(ss) == IF ss = << >> THEN << >> ELSE ss[1] \o ConcatAll(Tail(ss))

(* ----------------------------- json.dumps ------------------------------ *)
\* strings of the input alphabet need no escaping
JsonStr(s) == "\"" \o s \o "\""
RECURSIVE JsonValue(_), JsonDict(_), JsonMembers(_), JsonElements(_)
JsonValue(v) ==
    CASE v[1] = "str" -> JsonStr(v[2])
      [] v[1] = "null" -> "null"
      [] v[1] = "list" -> "[" \o JsonElements(v[2]) \o "]"
      [] v[1] = "dict" -> JsonDict(v[2])
JsonElements(l) ==
    IF l = << >> THEN ""
    ELSE IF Len(l) = 1 THEN JsonDict(l[1])
    ELSE JsonDict(l[1]) \o ", " \o JsonElements(Tail(l))
JsonMembers(d) ==
    IF d = << >> THEN ""
    ELSE IF Len(d) = 1 THEN JsonStr(d[1][1]) \o ": " \o JsonValue(d[1][2])
    ELSE JsonStr(d[1][1]) \o ": " \o JsonValue(d[1][2]) \o ", " \o JsonMembers(Tail(d))
JsonDict(d) == "{" \o JsonMembers(d) \o "}"
\* json.dumps(item)
JsonDumps(d) == JsonDict(d)
\* '\n'.join(lines)
RECURSIVE Join(_)
Join(lines) ==
    IF lines = << >> THEN ""
    ELSE IF Len(lines) = 1 THEN lines[1]
    ELSE lines[1] \o "\n" \o Join(Tail(lines))
\* '\n'.join(json.dumps(item) for item in items)
Jsonl(items) == Join([i \in DOMAIN items |-> JsonDumps(items[i])])

(* ------------------------------ storage -------------------------------- *)
\* LocalStorageHandler.save: open(full_path, 'w') truncates, then writes
SaveAppend(store, content, filepath) ==
    IF filepath \in DOMAIN store
    THEN [store EXCEPT ![filepath] = @ \o content]
    ELSE (filepath :> content) @@ store
Save(store, content, filepath) == (filepath :> content) @@ store

(* --------------------------- GenesysProcessor -------------------------- *)
AllowList == <<"id", "name", "modifiedDate", "published", "contextId",
               "weightMode", "selfUri">>
\* the processed_entity literal of process_entities
SummaryWhole(entity) == entity
Summary(entity) ==
    [i \in DOMAIN AllowList |-> <<AllowList[i], DictGet(entity, AllowList[i], NoneV)>>]

\* the two nested loops of process_entities, in iteration order
RECURSIVE PublishedOfRoots(_)
PublishedOfRoots(roots) ==
    IF roots = << >> THEN << >>
    ELSE LET pv == DictGet(roots[1], "publishedVersions", DictV(EmptyDict))
         IN (IF ~Truthy(pv) THEN << >>
             ELSE Items(DictGet(pv[2], "entities", ListV(<< >>))))
            \o PublishedOfRoots(Tail(roots))
PublishedEntities(data) == PublishedOfRoots(Items(DictGet(data, "entities", ListV(<< >>))))

prefix_dict_keys(d, prefix) == [i \in DOMAIN d |-> <<prefix \o "_" \o d[i][1], d[i][2]>>]

\* questions = qg.pop('questiongroups_questions', [])
QuestionsOf(qg) == Items(DictGet(qg, "questiongroups_questions", ListV(<< >>)))
\* answer_options = question.pop('questions_answerOptions', [])
AnswerOptionsOf(question) == Items(DictGet(question, "questions_answerOptions", ListV(<< >>)))
\* the question dict after the pop of line 115
QuestionAfter(question) == DictPop(question, "questions_answerOptions")
\* the question-group dict after the pop of line 108
QgAfter(qg) == DictPop(qg, "questiongroups_questions")
\* qg_data as json.dumps sees it at line 138: a shallow prefixed copy of qg
\* taken before the pop, so it still holds the popped list object, whose
\* question dicts have each lost 'questions_answerOptions' by then
QgData(qg, form_id) ==
    LET seen == [i \in DOMAIN qg |->
                   IF qg[i][1] = "questiongroups_questions"
                   THEN <<qg[i][1],
                          ListV([j \in DOMAIN qg[i][2][2] |-> QuestionAfter(qg[i][2][2][j])])>>
                   ELSE qg[i]]
    IN DictPut(prefix_dict_keys(seen, "questiongroups"), "formid", form_id)

\* answer_options_data contributed by one question group
RecordsOfGroup(qg, form_id) ==
    LET qg_data == QgData(qg, form_id)
        questions == QuestionsOf(qg)
    IN ConcatAll([j \in DOMAIN questions |->
          LET q_data == prefix_dict_keys(questions[j], "questions")
              combined_data == Merge(qg_data, q_data)
              answer_options == AnswerOptionsOf(questions[j])
          IN [k \in DOMAIN answer_options |->
                Merge(combined_data, prefix_dict_keys(answer_options[k], "answeroptions"))]])

FormId(form_entity) == DictGet(form_entity, "id", NoneV)
QuestionGroups(form_entity) == Items(DictGet(form_entity, "questionGroups", ListV(<< >>)))
\* answer_options_data at line 135
Records(form_entity) ==
    LET qgs == QuestionGroups(form_entity)
    IN ConcatAll([g \in DOMAIN qgs |-> RecordsOfGroup(qgs[g], FormId(form_entity))])
\* the form entity as process_question_groups leaves it
EntityAfter(form_entity) ==
    [i \in DOMAIN form_entity |->
        IF form_entity[i][1] = "questionGroups"
        THEN <<"questionGroups",
               ListV([g \in DOMAIN form_entity[i][2][2] |-> QgAfter(form_entity[i][2][2][g])])>>
        ELSE form_entity[i]]
\* the guard of line 135
SavesAlways(answer_options_data) == TRUE
SavesGroups(answer_options_data) == answer_options_data # << >>
GroupsFile(form_id) == "questiongroups_" \o PyStr(form_id) \o ".jsonl"
OUTPUT_FILE == "forms.jsonl"
\* save_to_jsonl builds its content from `json.dumps(entity) for item in
\* entities`: `entity` is bound nowhere, so the first item raises NameError;
\* only an empty list gets as far as the join, which yields ''
SaveToJsonlDumpsList(entities) ==
    IF entities = << >> THEN [raises |-> FALSE, content |-> "[]"]
    ELSE [raises |-> TRUE, content |-> ""]
SaveToJsonl(entities) ==
    IF entities = << >> THEN [raises |-> FALSE, content |-> Join(<< >>)]
    ELSE [raises |-> TRUE, content |-> ""]
\* fetch_data and main both log and re-raise: the run ends at the failure
OnFetchErrorSwallowed == "process"
OnFetchError == "raised"

(* ------------------------------- inputs -------------------------------- *)
Num == <<"1", "2", "3", "4", "5">>
NaturalQ == "questions"
NaturalA == "answerOptions"
PrefixedQ == "questiongroups_questions"
PrefixedA == "questions_answerOptions"
QKeys == {NaturalQ, PrefixedQ}
AKeys == {NaturalA, PrefixedA}

MkAO(k) == << <<"id", StrV("AO" \o Num[k])>>, <<"text", StrV("opt")>> >>
MkQ(j, n3, akey) ==
    << <<"id", StrV("Q" \o Num[j])>>,
       <<akey, ListV([k \in 1..n3 |-> MkAO(k)])>> >>
MkQG(g, n2, n3, qkey, akey) ==
    << <<"id", StrV("QG" \o Num[g])>>,
       <<"name", StrV("group")>>,
       <<qkey, ListV([j \in 1..n2 |-> MkQ(j, n3, akey)])>> >>
\* own fields of a form: partial allow-list plus an unknown field; the full
\* allow-list; no id at all
Heads == 1..3
FormHead(h) ==
    CASE h = 1 -> << <<"id", StrV("F1")>>, <<"name", StrV("Form One")>>,
                     <<"description", StrV("extra")>> >>
      [] h = 2 -> << <<"id", StrV("F2")>>, <<"name", StrV("Form Two")>>,
                     <<"modifiedDate", StrV("2024-01-01")>>,
                     <<"published", StrV("true")>>,
                     <<"contextId", StrV("ctx")>>,
                     <<"weightMode", StrV("none")>>,
                     <<"selfUri", StrV("/forms/F2")>> >>
      [] h = 3 -> << <<"name", StrV("Anonymous")>> >>
MkForm(h, n1, n2, n3, qkey, akey) ==
    FormHead(h) \o << <<"questionGroups",
                    ListV([g \in 1..n1 |-> MkQG(g, n2, n3, qkey, akey)])>> >>
Forms ==
    {MkForm(h, n1, n2, n3, qkey, akey) :
        h \in Heads, n1 \in 0..MaxN, n2 \in 0..MaxN, n3 \in 0..MaxN,
        qkey \in QKeys, akey \in AKeys}
\* forms that share pages with other forms: two ids, one of them twice
BasicForms ==
    {MkForm(1, 1, 1, 2, PrefixedQ, PrefixedA),
     MkForm(1, 1, 1, 1, PrefixedQ, PrefixedA),
     MkForm(2, 1, 1, 1, NaturalQ, NaturalA)}

BSeq(S, n) == UNION {[1..m -> S] : m \in 0..n}
RootNoPV == << <<"id", StrV("R")>> >>
RootEmptyPV == << <<"id", StrV("R")>>, <<"publishedVersions", DictV(EmptyDict)>> >>
RootPV(fs) ==
    << <<"id", StrV("R")>>,
       <<"publishedVersions", DictV(<< <<"entities", ListV(fs)>> >>)>> >>
\* a root entity of any kind, and the plainer roots that may follow it
Roots == {RootNoPV, RootEmptyPV} \cup {RootPV(fs) : fs \in BSeq(BasicForms, MaxForms)}
SimpleRoots == {RootNoPV, RootEmptyPV, RootPV(<<MkForm(1, 1, 1, 2, PrefixedQ, PrefixedA)>>)}
Body(roots) == << <<"entities", ListV(roots)>> >>
TerminalPages == {Body(<< >>), EmptyDict}
FillerPage == Body(<<RootNoPV>>)
FirstPages ==
    {Body(<<RootPV(<<f>>)>>) : f \in Forms}
    \cup {Body(<<r>> \o rest) : r \in Roots, rest \in BSeq(SimpleRoots, MaxRoots - 1)}
\* page sequences: K-1 non-empty pages, then the terminal page
PageSeqs ==
    {<<t>> : t \in TerminalPages}
    \cup {<<p>> \o [i \in 1..(K - 2) |-> FillerPage] \o <<Body(<< >>)>> :
            p \in FirstPages, K \in 2..MaxPages}

(* ------------------------------- state --------------------------------- *)
VARIABLES
    pages,      \* what the API serves: page K is pages[K]
    run,        \* which run of main() this is
    pc,         \* position in main(): start, ready, process, done, raised
    forms,      \* the published form entities of raw_data, as objects
    idx,        \* index in forms of the next entity of process_entities
    processed,  \* processed_entities
    records,    \* answer_options_data of the latest process_question_groups
    storage,    \* files under ./output: name -> content
    saveLog,    \* every storage_handler.save call: run, name, content, form
    fetchLog,   \* every requests.get call: run, page served
    failure,    \* what made this run raise, "none" while it has not
    ioFailed,   \* some run so far met a secret, fetch or storage failure
    written,    \* <<name, content>> of the saves of this run that succeeded
    storage1,   \* storage as the previous run left it
    written1    \* written as the previous run left it

vars == <<pages, run, pc, forms, idx, processed, records, storage, saveLog,
          fetchLog, failure, ioFailed, written, storage1, written1>>

NoFiles == [n \in {} |-> ""]

Init ==
    /\ pages \in PageSeqs
    /\ run = 1
    /\ pc = "start"
    /\ forms = << >>
    /\ idx = 1
    /\ processed = << >>
    /\ records = << >>
    /\ storage = NoFiles
    /\ saveLog = << >>
    /\ fetchLog = << >>
    /\ failure = "none"
    /\ ioFailed = FALSE
    /\ written = {}
    /\ storage1 = NoFiles
    /\ written1 = {}

SaveCall(name, content, form) ==
    [run |-> run, name |-> name, content |-> content, form |-> form]

\* GenesysProcessor(...): the token comes from the secrets manager
Construct ==
    /\ pc = "start"
    /\ pc' = "ready"
    /\ UNCHANGED <<pages, run, forms, idx, processed, records, storage, saveLog,
                   fetchLog, failure, ioFailed, written, storage1, written1>>

\* _get_bearer_token logs and re-raises; main logs and re-raises
ConstructFails ==
    /\ pc = "start"
    /\ pc' = "raised"
    /\ failure' = "secret"
    /\ ioFailed' = TRUE
    /\ UNCHANGED <<pages, run, forms, idx, processed, records, storage, saveLog,
                   fetchLog, written, storage1, written1>>

\* fetch_data: one GET of API_URL, which carries no pageNumber: page 1
FetchData ==
    /\ pc = "ready"
    /\ fetchLog' = Append(fetchLog, [run |-> run, page |-> 1])
    /\ forms' = PublishedEntities(pages[1])
    /\ idx' = 1
    /\ processed' = << >>
    /\ pc' = "process"
    /\ UNCHANGED <<pages, run, records, storage, saveLog, failure, ioFailed,
                   written, storage1, written1>>

\* requests.get or raise_for_status raises RequestException
FetchDataFails ==
    /\ pc = "ready"
    /\ fetchLog' = Append(fetchLog, [run |-> run, page |-> 1])
    /\ forms' = << >>
    /\ idx' = 1
    /\ processed' = << >>
    /\ pc' = OnFetchError
    /\ failure' = "fetch"
    /\ ioFailed' = TRUE
    /\ UNCHANGED <<pages, run, records, storage, saveLog, written, storage1, written1>>

\* one iteration of the inner loop of process_entities: the summary, then
\* process_question_groups(entity) with its save
ProcessEntity ==
    /\ pc = "process"
    /\ idx <= Len(forms)
    /\ LET entity == forms[idx]
           answer_options_data == Records(entity)
           filename == GroupsFile(FormId(entity))
           jsonl_content == Jsonl(answer_options_data)
       IN /\ processed' = Append(processed, Summary(entity))
          /\ records' = answer_options_data
          /\ forms' = [forms EXCEPT ![idx] = EntityAfter(entity)]
          /\ IF SavesGroups(answer_options_data)
             THEN /\ storage' = Save(storage, jsonl_content, filename)
                  /\ saveLog' = Append(saveLog, SaveCall(filename, jsonl_content, idx))
                  /\ written' = written \cup {<<filename, jsonl_content>>}
             ELSE UNCHANGED <<storage, saveLog, written>>
    /\ idx' = idx + 1
    /\ UNCHANGED <<pages, run, pc, fetchLog, failure, ioFailed, storage1, written1>>

\* the same iteration when storage_handler.save raises
ProcessEntitySaveFails ==
    /\ pc = "process"
    /\ idx <= Len(forms)
    /\ LET entity == forms[idx]
           answer_options_data == Records(entity)
           filename == GroupsFile(FormId(entity))
           jsonl_content == Jsonl(answer_options_data)
       IN /\ SavesGroups(answer_options_data)
          /\ processed' = Append(processed, Summary(entity))
          /\ records' = answer_options_data
          /\ forms' = [forms EXCEPT ![idx] = EntityAfter(entity)]
          /\ saveLog' = Append(saveLog, SaveCall(filename, jsonl_content, idx))
    /\ idx' = idx + 1
    /\ pc' = "raised"
    /\ failure' = "storage"
    /\ ioFailed' = TRUE
    /\ UNCHANGED <<pages, run, storage, fetchLog, written, storage1, written1>>

\* save_to_jsonl(processed_entities, OUTPUT_FILE), once the loops are over
SaveAggregate ==
    /\ pc = "process"
    /\ idx > Len(forms)
    /\ LET r == SaveToJsonl(processed)
       IN IF r.raises
          THEN /\ pc' = "raised"
               /\ failure' = "NameError"
               /\ UNCHANGED <<storage, saveLog, written>>
          ELSE /\ pc' = "done"
               /\ storage' = Save(storage, r.content, OUTPUT_FILE)
               /\ saveLog' = Append(saveLog, SaveCall(OUTPUT_FILE, r.content, 0))
               /\ written' = written \cup {<<OUTPUT_FILE, r.content>>}
               /\ UNCHANGED failure
    /\ UNCHANGED <<pages, run, forms, idx, processed, records, fetchLog, ioFailed,
                   storage1, written1>>

\* the same call when storage_handler.save raises
SaveAggregateFails ==
    /\ pc = "process"
    /\ idx > Len(forms)
    /\ LET r == SaveToJsonl(processed)
       IN /\ ~r.raises
          /\ saveLog' = Append(saveLog, SaveCall(OUTPUT_FILE, r.content, 0))
    /\ pc' = "raised"
    /\ failure' = "storage"
    /\ ioFailed' = TRUE
    /\ UNCHANGED <<pages, run, forms, idx, processed, records, storage, fetchLog,
                   written, storage1, written1>>

\* main() is started again on the same API data and the same ./output
Rerun ==
    /\ pc \in {"done", "raised"}
    /\ run < MaxRuns
    /\ run' = run + 1
    /\ pc' = "start"
    /\ forms' = << >>
    /\ idx' = 1
    /\ processed' = << >>
    /\ records' = << >>
    /\ failure' = "none"
    /\ written' = {}
    /\ storage1' = storage
    /\ written1' = written
    /\ UNCHANGED <<pages, storage, saveLog, fetchLog, ioFailed>>

Next ==
    \/ Construct
    \/ ConstructFails
    \/ FetchData
    \/ FetchDataFails
    \/ ProcessEntity
    \/ ProcessEntitySaveFails
    \/ SaveAggregate
    \/ SaveAggregateFails
    \/ Rerun

Spec == Init /\ [][Next]_vars

TypeOK ==
    /\ pc \in {"start", "ready", "process", "done", "raised"}
    /\ run \in 1..MaxRuns
    /\ idx \in 1..(Len(forms) + 1)

(* ----------------------- vocabulary of the claims ---------------------- *)
\* the published form entities as the API served them
Orig == PublishedEntities(pages[1])
Ended == pc \in {"done", "raised"}
RunSaves == SelectSeq(saveLog, LAMBDA c : c.run = run)
RunFetches == SelectSeq(fetchLog, LAMBDA c : c.run = run)
SavesOfForm(i) == SelectSeq(RunSaves, LAMBDA c : c.form = i)
Pairs(d) == {d[i] : i \in DOMAIN d}
FirstPageEmpty == Items(DictGet(pages[1], "entities", ListV(<< >>))) = << >>
\* the form process_question_groups was last called on, as it was served
LastForm == Orig[idx - 1]
Flattened == pc \in {"process", "raised"} /\ idx > 1

(* ------------------------------- C1 ------------------------------------ *)
\* C1: a form with N1 question groups, each with N2 questions, each with N3
\* answer options, is flattened into exactly N1*N2*N3 records (none when
\* some Ni is zero).
C1_RecordCountIsProduct ==
    \A h \in Heads, n1 \in 0..MaxN, n2 \in 0..MaxN, n3 \in 0..MaxN :
        (Flattened /\ LastForm = MkForm(h, n1, n2, n3, NaturalQ, NaturalA))
            => Len(records) = n1 * n2 * n3

(* ------------------------------- C2 ------------------------------------ *)
NestKeysOfGroup == {NaturalQ, PrefixedQ}
NestKeysOfQuestion == {NaturalA, PrefixedA}
ExpectedKeys(qg, q, ao) ==
    {"formid"}
    \cup {"questiongroups_" \o k : k \in Keys(qg) \ NestKeysOfGroup}
    \cup {"questions_" \o k : k \in Keys(q) \ NestKeysOfQuestion}
    \cup {"answeroptions_" \o k : k \in Keys(ao)}
\* C2: every flat record has as keys exactly formid, the prefixed own fields
\* of its question group and of its question, and the prefixed fields of its
\* answer option, the keys holding the next nesting level excluded; formid
\* is the form's id.
C2_RecordKeysArePrefixedOwnFields ==
    Flattened =>
        \A m \in DOMAIN records :
            /\ DictGet(records[m], "formid", StrV("absent")) = FormId(LastForm)
            /\ \E g \in DOMAIN QuestionGroups(LastForm) :
                 LET qg == QuestionGroups(LastForm)[g]
                 IN \E j \in DOMAIN QuestionsOf(qg) :
                      LET q == QuestionsOf(qg)[j]
                      IN \E k \in DOMAIN AnswerOptionsOf(q) :
                           Keys(records[m]) = ExpectedKeys(qg, q, AnswerOptionsOf(q)[k])

C4_FetchesEveryPage ==
    (Ended /\ failure \notin {"secret", "fetch"})
        => [i \in DOMAIN RunFetches |-> RunFetches[i].page] = [i \in 1..Len(pages) |-> i]

(* ------------------------------- C5 ------------------------------------ *)
\* C5 as claimed: when the first fetch returns an empty entities list, the
\* run produces no record, makes no save call and leaves no output file.
C5_NoSaveOnEmptyFirstPage ==
    (pc = "done" /\ FirstPageEmpty)
        => /\ processed = << >>
           /\ RunSaves = << >>
           /\ (run = 1 => DOMAIN storage = {})
\* C5 as amended: when the first fetch returns an empty entities list and no
\* step fails, the run produces no record and no per-form save, and makes
\* exactly one save call: forms.jsonl with empty content, the only file.
C5_OnlyEmptyAggregateOnEmptyFirstPage ==
    (pc = "done" /\ FirstPageEmpty)
        => /\ processed = << >>
           /\ records = << >>
           /\ Len(RunSaves) = 1
           /\ RunSaves[1].name = OUTPUT_FILE
           /\ RunSaves[1].content = ""
           /\ RunSaves[1].form = 0
           /\ storage[OUTPUT_FILE] = ""
           /\ (run = 1 => DOMAIN storage = {OUTPUT_FILE})
C5_Witness == pc = "done" /\ FirstPageEmpty /\ run = 1 /\ Len(fetchLog) = 1

(* ------------------------------- C6 ------------------------------------ *)
\* C6: a run over n >= 1 published forms that meets no fetch or storage
\* failure ends with exactly one save of forms.jsonl, whose i-th line is the
\* summary of the i-th form.
C6_AggregateHoldsEverySummary ==
    (Ended /\ failure \notin {"secret", "fetch", "storage"} /\ Len(Orig) >= 1)
        => LET agg == SelectSeq(RunSaves, LAMBDA c : c.name = OUTPUT_FILE)
           IN /\ Len(agg) = 1
              /\ agg[1].content = Jsonl([i \in DOMAIN Orig |-> Summary(Orig[i])])

(* ------------------------------- C7 ------------------------------------ *)
\* C7: a failing step ends the run in the raised state (propagated, not
\* swallowed), and from then on the run makes no fetch and no save and the
\* stored files keep their content.
C7_FailureAbortsRun ==
    /\ [](failure # "none" => pc = "raised")
    /\ [][(failure # "none" /\ run' = run)
            => /\ failure' = failure
               /\ fetchLog' = fetchLog
               /\ saveLog' = saveLog
               /\ storage' = storage]_vars
\* a storage failure after an earlier file was saved
C7_Witness ==
    /\ failure = "storage" /\ pc = "raised" /\ run = 1
    /\ DOMAIN storage # {}
    /\ Len(saveLog) = 2

(* ------------------------------- C8 ------------------------------------ *)
\* C8: each root summary has exactly the seven allow-listed keys; a field
\* the form has is copied verbatim, one it lacks is null, all else is
\* dropped.
C8_SummaryIsAllowList ==
    \A i \in DOMAIN processed :
        LET s == processed[i]
            e == Orig[i]
            allowed == {AllowList[n] : n \in DOMAIN AllowList}
        IN /\ Len(s) = 7
           /\ Keys(s) = {"id", "name", "modifiedDate", "published", "contextId",
                         "weightMode", "selfUri"}
           /\ \A p \in DOMAIN e : e[p][1] \in allowed => e[p] \in Pairs(s)
           /\ \A k \in allowed \ Keys(e) : <<k, NoneV>> \in Pairs(s)
\* a form with an unknown field, a nested collection and missing fields
C8_Witness ==
    \E i \in DOMAIN processed :
        /\ HasKey(Orig[i], "description")
        /\ HasKey(Orig[i], "questionGroups")
        /\ ~HasKey(Orig[i], "selfUri")

(* ------------------------------- C9 ------------------------------------ *)
\* C9: a run that follows another on the same data and storage, neither
\* meeting a secret, fetch or storage failure, writes the same names with
\* the same content and leaves the storage as the earlier run left it.
C9_RerunIsIdempotent ==
    (run >= 2 /\ Ended /\ ~ioFailed)
        => /\ storage = storage1
           /\ written = written1
\* the second run has rewritten a per-form file
C9_Witness ==
    /\ run = 2 /\ Ended /\ ~ioFailed
    /\ \E c \in written : c[1] # OUTPUT_FILE

(* ------------------------------- C10 ----------------------------------- *)
\* C10: process_question_groups leaves the form entity as it was, so that
\* flattening it again yields the same records.
C10_FlattenLeavesInputUnchanged ==
    \A i \in DOMAIN forms :
        i < idx => /\ forms[i] = Orig[i]
                   /\ Records(forms[i]) = Records(Orig[i])
====
